---- MODULE Spec2Model ----
(***************************************************************************)
(* The blob-container-URL cache of ITwinRealityData (src/src/RealityData.ts)*)
(* as a state machine: one reality data instance, its two-slot              *)
(* ContainerCache, the clock read through Date.now(), the asynchronous      *)
(* invocations of getBlobUrl / getContainerUrl and the container requests   *)
(* they have in flight.  Further specifications study on their own the      *)
(* composition of the blob url, the objects a RealityDataAccessClient       *)
(* returns, and the urls the client builds (src/src/RealityDataClient.ts).  *)
(***************************************************************************)
EXTENDS Integers, FiniteSets, Sequences, TLC

VARIABLES
    now,             \* the value Date.now() returns, in milliseconds
    id,              \* ITwinRealityData.id (undefined when built without realityData)
    client,          \* ITwinRealityData.client
    iTwinId,         \* ITwinRealityData.iTwinId
    containerCache,  \* ITwinRealityData._containerCache: one slot per access
    call,            \* per caller: the invocation it has suspended at the await
    event,           \* what the last step did for its caller: sent a request, returned, threw
    requests,        \* number of axios.get container requests issued so far
    containerUrl,    \* getBlobUrl: the url getContainerUrl resolved to
    blobPath,        \* getBlobUrl: its blobPath argument
    blobUrl,         \* getBlobUrl: the URL it returns
    instances,       \* the ITwinRealityData objects a RealityDataAccessClient handed out
    reply            \* what the last call of a RealityDataAccessClient method came to

\* the fields of the instance under study and what goes on around them
entityVars == <<now, id, client, iTwinId, containerCache, call, event, requests>>
\* the composition of the blob url, studied on its own
blobVars == <<containerUrl, blobPath, blobUrl>>
\* the client and the instances it builds, studied on their own
clientVars == <<instances, reply>>

vars == <<entityVars, blobVars, clientVars>>

-----------------------------------------------------------------------------
(* Bounds *)

\* the clock runs up to the instants around MaxWindows refresh periods
MaxWindows == 1
\* cap on the number of container requests issued in one behaviour
MaxRequests == 3

(* Program constants *)

\* RealityData.ts:165  "3 million milliseconds or 50 minutes"
RefreshMs == 3000000
\* RealityData.ts:63   "The Azure blob URL is considered valid for an hour"
ValidMs == 3600000

-----------------------------------------------------------------------------
undefined == [undefined |-> TRUE]

\* the callers whose invocations may overlap on the one instance
Callers == {"a", "b"}
Access == {"Read", "Write"}

\* the instants the clock takes: construction time, the instants 1 s before,
\* at and 1 ms after each multiple of the refresh period, and the instant a
\* url issued at construction time expires
Offsets == {-1000, 0, 1}
Instants ==
    {0, ValidMs} \cup {k * RefreshMs + o : k \in 1..MaxWindows, o \in Offsets}

AccessTokens == {"token", "fake"}

\* what the awaited axios.get comes back with: a 2xx response whose body has
\* the container link, a 2xx response whose body has no container, a status
\* outside 2xx, no response at all
Outcomes == {"ok", "noContainer", "badStatus", "transport"}

Idle == [pc |-> "idle"]
NoEvent == [kind |-> "none"]

-----------------------------------------------------------------------------
(* ContainerCache *)

getCache(cache, access) ==
    IF access = "Read" THEN cache.containerRead
                       ELSE cache.containerWrite

\* variant: the value is stored in both slots
setCache_Both(cache, containerCacheValue, access) ==
    [containerRead |-> containerCacheValue, containerWrite |-> containerCacheValue]

\* variant: a slot that holds a value is not overwritten
setCache_KeepExisting(cache, containerCacheValue, access) ==
    IF getCache(cache, access) # undefined THEN cache
    ELSE IF access = "Read"
    THEN [cache EXCEPT !.containerRead = containerCacheValue]
    ELSE [cache EXCEPT !.containerWrite = containerCacheValue]

setCache(cache, containerCacheValue, access) ==
    IF access = "Read"
    THEN [cache EXCEPT !.containerRead = containerCacheValue]
    ELSE [cache EXCEPT !.containerWrite = containerCacheValue]

-----------------------------------------------------------------------------
(* ITwinRealityData.getContainerUrl, the part before the await *)

\* const access = (writeAccess === true ? "Write" : "Read");
accessOf(writeAccess) == IF writeAccess = TRUE THEN "Write" ELSE "Read"

\* variant: the comparison is inverted
blobUrlRequiresRefresh_Inverted(cached, t) ==
    \/ cached = undefined
    \/ (t - cached.timeStamp) < RefreshMs

\* variant: the url is refreshed only when its hour of validity is over
blobUrlRequiresRefresh_Hour(cached, t) ==
    \/ cached = undefined
    \/ (t - cached.timeStamp) > ValidMs

\* variant: the url is refreshed from 50 minutes on
blobUrlRequiresRefresh_AtBoundary(cached, t) ==
    \/ cached = undefined
    \/ (t - cached.timeStamp) >= RefreshMs

\* !containerCache?.timeStamp || (Date.now() - timeStamp.getTime()) > 3000000
blobUrlRequiresRefresh(cached, t) ==
    \/ cached = undefined
    \/ (t - cached.timeStamp) > RefreshMs

\* variant: no use is made of the cache
requiresRequest_Always(cached, t) == TRUE

\* undefined === containerCache?.url || blobUrlRequiresRefresh
requiresRequest(cached, t) ==
    \/ cached = undefined
    \/ blobUrlRequiresRefresh(cached, t)

\* variant: the project parameter is always written, as the template of the
\* earlier implementation did (projectId=${this.iTwinId})
requestUrl_AlwaysProject(access) ==
    IF iTwinId # undefined
    THEN [id |-> id, projectId |-> iTwinId, access |-> access]
    ELSE [id |-> id, projectId |-> [guid |-> "undefined"], access |-> access]

\* variant: the request asks for Read whatever the access
requestUrl_ReadOnly(access) ==
    IF iTwinId # undefined
    THEN [id |-> id, projectId |-> iTwinId, access |-> "Read"]
    ELSE [id |-> id, projectId |-> undefined, access |-> "Read"]

\* the url of the container request (RealityData.ts:169-170)
requestUrl(access) ==
    IF iTwinId # undefined
    THEN [id |-> id, projectId |-> iTwinId, access |-> access]
    ELSE [id |-> id, projectId |-> undefined, access |-> access]

\* the invocation returns the url of the slot of its access, read from cache
returned(access, cache) ==
    [kind |-> "url", access |-> access, container |-> getCache(cache, access)]

\* variant: the cached url is handed out only to the token the suite logs in
\* with; any other token goes to the platform
startCall_TokenChecked(c, entry, accessToken, passed, writeAccess) ==
    /\ call[c] = Idle
    /\ IF client = undefined
       THEN /\ event' = [kind |-> "error", sent |-> FALSE, entry |-> entry]
            /\ UNCHANGED <<call, requests, containerCache>>
       ELSE LET access == accessOf(writeAccess)
                cached == getCache(containerCache, access)
            IN  IF requiresRequest(cached, now) \/ accessToken # "token"
                THEN /\ requests < MaxRequests
                     /\ requests' = requests + 1
                     /\ call' = [call EXCEPT ![c] =
                            [pc |-> "await", access |-> access,
                             request |-> [url |-> requestUrl(access),
                                          sentAt |-> now]]]
                     /\ event' = [kind |-> "sent", entry |-> entry,
                                  passed |-> passed, access |-> access,
                                  accessToken |-> accessToken]
                     /\ UNCHANGED containerCache
                ELSE /\ UNCHANGED <<call, requests, containerCache>>
                     /\ event' = returned(access, containerCache) @@
                                  [fetched |-> FALSE, entry |-> entry,
                                   accessToken |-> accessToken]
    /\ UNCHANGED <<now, id, client, iTwinId, blobVars, clientVars>>

\* variant: a slot due for a refresh is emptied before the request is sent
startCall_ClearsSlot(c, entry, accessToken, passed, writeAccess) ==
    /\ call[c] = Idle
    /\ IF client = undefined
       THEN /\ event' = [kind |-> "error", sent |-> FALSE, entry |-> entry]
            /\ UNCHANGED <<call, requests, containerCache>>
       ELSE LET access == accessOf(writeAccess)
                cached == getCache(containerCache, access)
            IN  IF requiresRequest(cached, now)
                THEN /\ requests < MaxRequests
                     /\ requests' = requests + 1
                     /\ call' = [call EXCEPT ![c] =
                            [pc |-> "await", access |-> access,
                             request |-> [url |-> requestUrl(access),
                                          sentAt |-> now]]]
                     /\ event' = [kind |-> "sent", entry |-> entry,
                                  passed |-> passed, access |-> access,
                                  accessToken |-> accessToken]
                     /\ containerCache' = setCache(containerCache, undefined, access)
                ELSE /\ UNCHANGED <<call, requests, containerCache>>
                     /\ event' = returned(access, containerCache) @@
                                  [fetched |-> FALSE, entry |-> entry,
                                   accessToken |-> accessToken]
    /\ UNCHANGED <<now, id, client, iTwinId, blobVars, clientVars>>

\* variant: the client reference is looked at only when a request has to be
\* built, after the cache
startCall_CacheFirst(c, entry, accessToken, passed, writeAccess) ==
    /\ call[c] = Idle
    /\ LET access == accessOf(writeAccess)
           cached == getCache(containerCache, access)
       IN  IF ~requiresRequest(cached, now)
           THEN /\ UNCHANGED <<call, requests, containerCache>>
                /\ event' = returned(access, containerCache) @@
                             [fetched |-> FALSE, entry |-> entry,
                              accessToken |-> accessToken]
           ELSE IF client = undefined
           THEN /\ event' = [kind |-> "error", sent |-> FALSE, entry |-> entry]
                /\ UNCHANGED <<call, requests, containerCache>>
           ELSE /\ requests < MaxRequests
                /\ requests' = requests + 1
                /\ call' = [call EXCEPT ![c] =
                       [pc |-> "await", access |-> access,
                        request |-> [url |-> requestUrl(access),
                                     sentAt |-> now]]]
                /\ event' = [kind |-> "sent", entry |-> entry,
                             passed |-> passed, access |-> access,
                             accessToken |-> accessToken]
                /\ UNCHANGED containerCache
    /\ UNCHANGED <<now, id, client, iTwinId, blobVars, clientVars>>

\* the synchronous prefix of getContainerUrl, run by caller c; passed is the
\* writeAccess the caller asked for, writeAccess the one getContainerUrl gets.
\* accessToken goes into the request options only (getRequestConfig, line
\* 171): nothing else reads it.
startCall(c, entry, accessToken, passed, writeAccess) ==
    /\ call[c] = Idle
    /\ IF client = undefined
       THEN \* throw Error("RealityDataAccessClient is not set.")
            /\ event' = [kind |-> "error", sent |-> FALSE, entry |-> entry]
            /\ UNCHANGED <<call, requests, containerCache>>
       ELSE LET access == accessOf(writeAccess)
                cached == getCache(containerCache, access)
            IN  IF requiresRequest(cached, now)
                THEN \* await axios.get(url, requestOptions)
                     /\ requests < MaxRequests
                     /\ requests' = requests + 1
                     /\ call' = [call EXCEPT ![c] =
                            [pc |-> "await", access |-> access,
                             request |-> [url |-> requestUrl(access),
                                          sentAt |-> now]]]
                     /\ event' = [kind |-> "sent", entry |-> entry,
                                  passed |-> passed, access |-> access,
                                  accessToken |-> accessToken]
                     /\ UNCHANGED containerCache
                ELSE \* return this._containerCache.getCache(access)!.url
                     /\ UNCHANGED <<call, requests, containerCache>>
                     /\ event' = returned(access, containerCache) @@
                                  [fetched |-> FALSE, entry |-> entry,
                                   accessToken |-> accessToken]
    /\ UNCHANGED <<now, id, client, iTwinId, blobVars, clientVars>>

\* public getBlobUrl(accessToken, blobPath): a third argument, as the README
\* passes, is accepted by JavaScript and dropped: getContainerUrl(accessToken)
getBlobUrl(c) ==
    \E accessToken \in AccessTokens, passed \in BOOLEAN :
        startCall(c, "getBlobUrl", accessToken, passed, FALSE)

\* private getContainerUrl(accessToken, writeAccess = false) called directly
getContainerUrl(c) ==
    \E accessToken \in AccessTokens, writeAccess \in BOOLEAN :
        startCall(c, "getContainerUrl", accessToken, writeAccess, writeAccess)

-----------------------------------------------------------------------------
(* ITwinRealityData.getContainerUrl, the part after the await.  The response *)
(* is an input of the step that reads it.  getBlobUrl, resumed in turn, adds *)
(* nothing but the blob path to the url getContainerUrl returns.             *)

\* the signed container url the platform issued at t for a granted request
signedUrl(access, t) == [access |-> access, issuedAt |-> t]

\* the responses the request of caller c can get by now: a granted one carries
\* a url signed between the sending of the request and now
Responses(c) ==
    {[outcome |-> "ok", href |-> signedUrl(call[c].request.url.access, t)] :
        t \in {i \in Instants : call[c].request.sentAt <= i /\ i <= now}}
    \cup {[outcome |-> o, href |-> undefined] : o \in Outcomes \ {"ok"}}

\* axios.get rejects: the catch block is entered from the await
rejects(response) == response.outcome \in {"badStatus", "transport"}

\* variant: the Error is built and not thrown
unexpectedResponse_NotThrown(response) == FALSE

\* if (!response.data.container) throw new Error(...)
unexpectedResponse(response) == response.href = undefined

\* what the catch block is entered with: the error axios rejects with (it
\* keeps the request config, and the status when a response came), or the
\* Error thrown at line 176
errorResponse(c, response) ==
    IF rejects(response)
    THEN [name |-> "AxiosError",
          config |-> [url |-> call[c].request.url],
          status |-> IF response.outcome = "badStatus" THEN "status"
                                                       ELSE undefined]
    ELSE [name |-> "Error", message |-> "API returned an unexpected response."]

\* JSON.stringify(errorResponse): an axios error serialises through its
\* toJSON; name, message and stack of a plain Error are not enumerable, so
\* its JSON text is {}
stringify(e) ==
    IF e.name = "AxiosError"
    THEN [name |-> e.name, config |-> e.config, status |-> e.status]
    ELSE [p \in {} |-> undefined]

\* Error(`API request error: ${JSON.stringify(errorResponse)}`)
thrown(e) == [name |-> "Error", prefix |-> "API request error: ",
              json |-> stringify(e)]

\* variant: a failed request invalidates the slot
catch_Invalidate(c, response) ==
    /\ event' = [kind |-> "error", sent |-> TRUE,
                 access |-> call[c].access, response |-> response,
                 error |-> thrown(errorResponse(c, response))]
    /\ containerCache' = setCache(containerCache, undefined, call[c].access)

\* the catch block: throw Error(`API request error: ...`)
catch(c, response) ==
    /\ event' = [kind |-> "error", sent |-> TRUE,
                 access |-> call[c].access, response |-> response,
                 error |-> thrown(errorResponse(c, response))]
    /\ UNCHANGED containerCache

\* variant: a response that finds the slot written since its request was
\* sent is dropped, and the invocation returns what the slot holds
updateCache_KeepsNewer(c, response) ==
    LET access == call[c].access
        previous == getCache(containerCache, access)
        newContainerCacheValue == [url |-> response.href, timeStamp |-> now]
        written == /\ previous # undefined
                   /\ previous.timeStamp >= call[c].request.sentAt
    IN  /\ containerCache' =
               IF written THEN containerCache
               ELSE setCache(containerCache, newContainerCacheValue, access)
        /\ event' = returned(access, containerCache') @@
                    [fetched |-> TRUE, response |-> response,
                     sentAt |-> call[c].request.sentAt,
                     replaced |-> getCache(containerCache, access)]

\* variant: the slot is stamped with the time the request was sent
updateCache_StampedAtSend(c, response) ==
    LET access == call[c].access
        newContainerCacheValue ==
            [url |-> response.href, timeStamp |-> call[c].request.sentAt]
    IN  /\ containerCache' =
               setCache(containerCache, newContainerCacheValue, access)
        /\ event' = returned(access, containerCache') @@
                    [fetched |-> TRUE, response |-> response,
                     sentAt |-> call[c].request.sentAt,
                     replaced |-> getCache(containerCache, access)]

\* variant: the slot is stamped anew but keeps the url it already held
updateCache_KeepsUrl(c, response) ==
    LET access == call[c].access
        previous == getCache(containerCache, access)
        newContainerCacheValue ==
            [url |-> IF previous = undefined THEN response.href
                     ELSE previous.url,
             timeStamp |-> now]
    IN  /\ containerCache' =
               setCache(containerCache, newContainerCacheValue, access)
        /\ event' = returned(access, containerCache') @@
                    [fetched |-> TRUE, response |-> response,
                     sentAt |-> call[c].request.sentAt,
                     replaced |-> getCache(containerCache, access)]

\* variant: the url returned is read before the slot is written
updateCache_ReturnsPrevious(c, response) ==
    LET access == call[c].access
        newContainerCacheValue == [url |-> response.href, timeStamp |-> now]
    IN  /\ containerCache' =
               setCache(containerCache, newContainerCacheValue, access)
        /\ event' = returned(access,
                        IF getCache(containerCache, access) = undefined
                        THEN containerCache' ELSE containerCache) @@
                    [fetched |-> TRUE, response |-> response,
                     sentAt |-> call[c].request.sentAt,
                     replaced |-> getCache(containerCache, access)]

\* update cache, then return this._containerCache.getCache(access)!.url
updateCache(c, response) ==
    LET access == call[c].access
        newContainerCacheValue == [url |-> response.href, timeStamp |-> now]
    IN  /\ containerCache' =
               setCache(containerCache, newContainerCacheValue, access)
        /\ event' = returned(access, containerCache') @@
                    [fetched |-> TRUE, response |-> response,
                     sentAt |-> call[c].request.sentAt,
                     replaced |-> getCache(containerCache, access)]

resume(c) ==
    /\ call[c].pc = "await"
    /\ \E response \in Responses(c) :
          IF rejects(response) THEN catch(c, response)
          ELSE IF unexpectedResponse(response) THEN catch(c, response)
          ELSE updateCache(c, response)
    /\ call' = [call EXCEPT ![c] = Idle]
    /\ UNCHANGED <<now, id, client, iTwinId, requests, blobVars, clientVars>>

-----------------------------------------------------------------------------
(* Time passes *)

\* variant: a timer refreshes the Read slot when its url is due
tick_Refreshes ==
    /\ \E t \in Instants : t > now /\ now' = t
    /\ IF containerCache.containerRead # undefined
          /\ blobUrlRequiresRefresh(containerCache.containerRead, now')
          /\ requests < MaxRequests
       THEN /\ requests' = requests + 1
            /\ containerCache' = setCache(containerCache,
                   [url |-> [access |-> "Read", issuedAt |-> now'],
                    timeStamp |-> now'], "Read")
       ELSE UNCHANGED <<requests, containerCache>>
    /\ event' = NoEvent
    /\ UNCHANGED <<id, client, iTwinId, call>>
    /\ UNCHANGED <<blobVars, clientVars>>

\* variant: a timer empties the slots whose url is due for a refresh
tick_Evicts ==
    /\ \E t \in Instants : t > now /\ now' = t
    /\ containerCache' =
          [containerRead |->
              IF blobUrlRequiresRefresh(containerCache.containerRead, now')
              THEN undefined ELSE containerCache.containerRead,
           containerWrite |->
              IF blobUrlRequiresRefresh(containerCache.containerWrite, now')
              THEN undefined ELSE containerCache.containerWrite]
    /\ event' = NoEvent
    /\ UNCHANGED <<id, client, iTwinId, call, requests>>
    /\ UNCHANGED <<blobVars, clientVars>>

tick ==
    /\ \E t \in Instants : t > now /\ now' = t
    /\ event' = NoEvent
    /\ UNCHANGED <<id, client, iTwinId, containerCache, call, requests>>
    /\ UNCHANGED <<blobVars, clientVars>>

-----------------------------------------------------------------------------
\* new ITwinRealityData(client, realityData?, iTwinId?): what the constructor
\* leaves in the fields other than id, client and iTwinId
constructed ==
    /\ now = 0
    /\ containerCache = [containerRead |-> undefined, containerWrite |-> undefined]
    /\ call = [c \in Callers |-> Idle]
    /\ event = NoEvent
    /\ requests = 0
    /\ containerUrl = undefined /\ blobPath = undefined /\ blobUrl = undefined
    /\ instances = <<>> /\ reply = undefined

\* the instance RealityDataAccessClient.getRealityData builds from a response
Init ==
    /\ id = [guid |-> "realityDataId"]
    /\ client = [baseUrl |-> "https://api.bentley.com/realitydata"]
    /\ iTwinId = [guid |-> "iTwinId"]
    /\ constructed

\* an instance built by hand: any of the arguments may be missing
InitEntity ==
    /\ id \in {undefined, [guid |-> "realityDataId"]}
    /\ client \in {undefined, [baseUrl |-> "https://api.bentley.com/realitydata"]}
    /\ iTwinId \in {undefined, [guid |-> "iTwinId"]}
    /\ constructed

\* the instance getRealityData(accessToken, undefined, realityDataId) builds
InitNoProject ==
    /\ id = [guid |-> "realityDataId"]
    /\ client = [baseUrl |-> "https://api.bentley.com/realitydata"]
    /\ iTwinId = undefined
    /\ constructed

\* an instance built by hand from a client reference that may be missing
InitAnyClient ==
    /\ id = [guid |-> "realityDataId"]
    /\ client \in {undefined, [baseUrl |-> "https://api.bentley.com/realitydata"]}
    /\ iTwinId = [guid |-> "iTwinId"]
    /\ constructed

\* public client: undefined | RealityDataAccessClient, assigned from outside
setClient ==
    /\ \E c \in {undefined, [baseUrl |-> "https://api.bentley.com/realitydata"]} :
          c # client /\ client' = c
    /\ event' = NoEvent
    /\ UNCHANGED <<now, id, iTwinId, containerCache, call, requests>>
    /\ UNCHANGED <<blobVars, clientVars>>

Next ==
    \/ \E c \in Callers : getBlobUrl(c)
    \/ \E c \in Callers : getContainerUrl(c)
    \/ \E c \in Callers : resume(c)
    \/ tick

Spec == Init /\ [][Next]_vars

SpecEntity == InitEntity /\ [][Next]_vars

SpecNoProject == InitNoProject /\ [][Next]_vars

NextAnyClient == Next \/ setClient

SpecAnyClient == InitAnyClient /\ [][NextAnyClient]_vars

-----------------------------------------------------------------------------
(* The platform answers every request successfully *)

\* the awaited axios.get of caller c settles with a 2xx response that carries
\* the container link, and the invocation runs to its return
answer(c) == resume(c) /\ event'.kind = "url"

NextLive ==
    \/ \E c \in Callers : getBlobUrl(c)
    \/ \E c \in Callers : getContainerUrl(c)
    \/ \E c \in Callers : answer(c)
    \/ tick

\* the event loop runs the continuation of every settled promise: a request
\* that stays pending is eventually answered
SpecLive ==
    Init /\ [][NextLive]_vars /\ \A c \in Callers : WF_vars(answer(c))

-----------------------------------------------------------------------------
(* ITwinRealityData.getBlobUrl, the composition of the blob url.  A string  *)
(* is the sequence of its pieces: the origin, and after it delimiters and   *)
(* names.  A URL object is the record of its components.                    *)

\* longest blobPath, in pieces
MaxLen == 2

\* the pieces a blobPath is made of: a name, and the characters that delimit
\* path segments, query and fragment in a url
Chars == {"tileset.json", "/", "?", "#"}

\* the string values of up to MaxLen pieces
Strings == {[string |-> s] : s \in UNION {[1..n -> Chars] : n \in 0..MaxLen}}

\* the container urls the platform hands out: with a signature, with version
\* and signature, without query
ContainerUrls ==
    {[origin |-> "https://host", pathname |-> <<"/", "container">>,
      search |-> q, hash |-> <<>>] :
        q \in {<<"?", "sig=abc123">>, <<"?", "sv=1", "&", "sig=abc123">>, <<>>}}

\* index of the first occurrence of ch in s at or after i; Len(s) + 1 if none
RECURSIVE indexOf(_, _, _)
indexOf(s, ch, i) ==
    IF i > Len(s) THEN Len(s) + 1
    ELSE IF s[i] = ch THEN i
    ELSE indexOf(s, ch, i + 1)

\* new URL(s) for an absolute s: the fragment starts at the first #, the
\* query at the first ? before it; a query or fragment that is only its
\* delimiter reads as the empty string
URL(s) ==
    LET rest == Tail(s)
        h == indexOf(rest, "#", 1)
        beforeHash == SubSeq(rest, 1, h - 1)
        q == indexOf(beforeHash, "?", 1)
        search == SubSeq(beforeHash, q, Len(beforeHash))
        hash == SubSeq(rest, h, Len(rest))
    IN  [origin |-> Head(s),
         pathname |-> SubSeq(beforeHash, 1, q - 1),
         search |-> IF Len(search) = 1 THEN <<>> ELSE search,
         hash |-> IF Len(hash) = 1 THEN <<>> ELSE hash]

\* variant: no test for a missing blobPath; the template writes "undefined"
composeBlobUrl_NoPassthrough(url, path) ==
    LET host == <<url.origin>> \o url.pathname \o <<"/">>
        query == url.search
    IN  URL(host \o (IF path = undefined THEN <<"undefined">> ELSE path.string)
                 \o query)

\* getBlobUrl, lines 142-147, applied to the url getContainerUrl returned
composeBlobUrl(url, path) ==
    IF path = undefined THEN url
    ELSE LET host == <<url.origin>> \o url.pathname \o <<"/">>
             query == url.search
         IN  URL(host \o path.string \o query)

\* getBlobUrl returns
returnBlobUrl ==
    /\ blobUrl = undefined
    /\ blobUrl' = composeBlobUrl(containerUrl, blobPath)
    /\ UNCHANGED <<containerUrl, blobPath, entityVars, clientVars>>

\* getBlobUrl(accessToken, blobPath) once getContainerUrl has returned
InitBlobUrl ==
    /\ containerUrl \in ContainerUrls
    /\ blobPath \in Strings \cup {undefined}
    /\ blobUrl = undefined
    /\ id = undefined /\ client = undefined /\ iTwinId = undefined
    /\ now = 0
    /\ containerCache = [containerRead |-> undefined, containerWrite |-> undefined]
    /\ call = [c \in Callers |-> Idle]
    /\ event = NoEvent
    /\ requests = 0
    /\ instances = <<>> /\ reply = undefined

SpecBlobUrl == InitBlobUrl /\ [][returnBlobUrl]_vars

-----------------------------------------------------------------------------
(* The ITwinRealityData objects a RealityDataAccessClient returns.  Each    *)
(* call of getContainerUrl runs here to its end in one step; how the calls  *)
(* of one object interleave is the matter of the specifications above.      *)

\* the variables of the calling code that hold an ITwinRealityData
Holders == {"x", "y"}
RealityDataIds == {"realityDataId", "otherId"}

\* new ITwinRealityData(this, response.data.realityData, iTwinId)
ITwinRealityData(realityDataId) ==
    [id |-> [guid |-> realityDataId],
     containerCache |-> [containerRead |-> undefined, containerWrite |-> undefined]]

\* variant: static _containerCache, one cache for all the objects
stored_Static(objects, h, cache) ==
    [g \in DOMAIN objects |->
        IF objects[g] = undefined THEN undefined
        ELSE [objects[g] EXCEPT !.containerCache = cache]]

\* this._containerCache.setCache(...) with this the object held by h
stored(objects, h, cache) ==
    [objects EXCEPT ![h].containerCache = cache]

\* h = await client.getRealityData(accessToken, iTwinId, realityDataId)
getRealityData(h) ==
    /\ \E realityDataId \in RealityDataIds :
          instances' = [instances EXCEPT ![h] = ITwinRealityData(realityDataId)]
    /\ UNCHANGED <<reply, entityVars, blobVars>>

\* h = await client.createRealityData(accessToken, iTwinId, realityData):
\* the platform chooses the id
createRealityData(h) ==
    /\ \E realityDataId \in RealityDataIds :
          instances' = [instances EXCEPT ![h] = ITwinRealityData(realityDataId)]
    /\ UNCHANGED <<reply, entityVars, blobVars>>

\* h = await client.modifyRealityData(accessToken, iTwinId, g)
modifyRealityData(h, g) ==
    /\ instances[g] # undefined
    /\ instances' = [instances EXCEPT ![h] = ITwinRealityData(instances[g].id.guid)]
    /\ UNCHANGED <<reply, entityVars, blobVars>>

\* getContainerUrl(accessToken, writeAccess) of the object held by h, from the
\* cache test to the return or the throw
resolve(h, writeAccess) ==
    /\ instances[h] # undefined
    /\ LET access == accessOf(writeAccess)
           cache == instances[h].containerCache
       IN  IF requiresRequest(getCache(cache, access), now)
           THEN /\ requests < MaxRequests
                /\ requests' = requests + 1
                /\ \E outcome \in Outcomes :
                      IF outcome = "ok"
                      THEN instances' = stored(instances, h,
                               setCache(cache, [url |-> signedUrl(access, now),
                                                timeStamp |-> now], access))
                      ELSE UNCHANGED instances
           ELSE UNCHANGED <<instances, requests>>
    /\ UNCHANGED <<now, id, client, iTwinId, containerCache, call, event>>
    /\ UNCHANGED <<reply, blobVars>>

InitInstances ==
    /\ instances = [h \in Holders |-> undefined]
    /\ reply = undefined
    /\ id = undefined /\ client = undefined /\ iTwinId = undefined
    /\ now = 0
    /\ containerCache = [containerRead |-> undefined, containerWrite |-> undefined]
    /\ call = [c \in Callers |-> Idle]
    /\ event = NoEvent
    /\ requests = 0
    /\ containerUrl = undefined /\ blobPath = undefined /\ blobUrl = undefined

NextInstances ==
    \/ \E h \in Holders : getRealityData(h)
    \/ \E h \in Holders : createRealityData(h)
    \/ \E h, g \in Holders : modifyRealityData(h, g)
    \/ \E h \in Holders, writeAccess \in BOOLEAN : resolve(h, writeAccess)

SpecInstances == InitInstances /\ [][NextInstances]_vars

-----------------------------------------------------------------------------
(* RealityDataAccessClient.getRealityDataUrl and getRealityDatas.  A url is *)
(* written as the sequence of its pieces, baseUrl first; reply is what the  *)
(* last call came to: the request it sent, if any, and what it returned or  *)
(* threw.                                                                   *)

\* RealityDataClient.ts:145-146  "Maximum value for top parameter is 500."
MaxTop == 500

baseUrl == "https://api.bentley.com/realitydata"

\* criteria.top: missing, or a number around the limits
Tops == {undefined} \cup
        {[number |-> n] : n \in {0, 1, 10, MaxTop - 1, MaxTop, MaxTop + 1}}
ContinuationTokens == {undefined, [string |-> "token5"]}
Criteria ==
    {undefined} \cup [top : Tops, continuationToken : ContinuationTokens]
ITwinIds == {undefined, [guid |-> "iTwinId"]}

\* what axios comes back with: a status, or no response at all
Statuses == {"200", "401", "transport"}

\* a value in a condition: undefined and 0 are falsy
truthy(v) == v # undefined /\ v # [number |-> 0]

\* RealityDataAccessClient.getRealityDataUrl
getRealityDataUrl(iTwin, realityDataId) ==
    IF truthy(iTwin)
    THEN [returned |-> <<baseUrl, "/", realityDataId, "?", "projectId=", iTwin.guid>>]
    ELSE [returned |-> <<baseUrl, "/", realityDataId>>]

\* await client.getRealityDataUrl(iTwinId, realityDataId)
callGetRealityDataUrl ==
    /\ \E iTwin \in ITwinIds, realityDataId \in RealityDataIds :
          reply' = [method |-> "getRealityDataUrl", iTwinId |-> iTwin,
                    realityDataId |-> realityDataId, sent |-> undefined]
                   @@ getRealityDataUrl(iTwin, realityDataId)
    /\ UNCHANGED <<instances, entityVars, blobVars>>

\* the url getRealityDatas builds, lines 136-154 (the extent is left out)
realityDatasUrl(iTwin, criteria) ==
    LET url0 == IF truthy(iTwin) THEN <<baseUrl, "?", "projectId=", iTwin.guid>>
                                 ELSE <<baseUrl>>
        url1 == IF criteria # undefined /\ truthy(criteria.continuationToken)
                THEN url0 \o <<"&", "continuationToken=",
                               criteria.continuationToken.string>>
                ELSE url0
    IN  IF criteria # undefined /\ truthy(criteria.top)
        THEN url1 \o <<"&", "$top=", ToString(criteria.top.number)>>
        ELSE url1

\* if (criteria.top) { if (top > 500) throw ...
topTooLarge(criteria) ==
    /\ criteria # undefined
    /\ truthy(criteria.top)
    /\ criteria.top.number > MaxTop

\* await client.getRealityDatas(accessToken, iTwinId, criteria), from the
\* call to the value or error the caller gets
getRealityDatas ==
    /\ \E accessToken \in AccessTokens, iTwin \in ITwinIds, criteria \in Criteria :
          LET called == [method |-> "getRealityDatas", iTwinId |-> iTwin,
                         criteria |-> criteria]
              request == [url |-> realityDatasUrl(iTwin, criteria),
                          accessToken |-> accessToken]
          IN  IF topTooLarge(criteria)
              THEN reply' = called @@
                     [sent |-> undefined,
                      thrown |-> [name |-> "ResponseError", status |-> "422",
                          message |-> "Maximum value for top parameter is 500."]]
              ELSE \E status \in Statuses :
                     reply' = called @@ [sent |-> request] @@
                        (IF status = "200"
                         THEN [returned |-> [realityDatas |-> "realityDatas"]]
                         ELSE IF status = "transport"
                         THEN \* error.response!.status with no response
                              [thrown |-> [name |-> "TypeError"]]
                         ELSE [thrown |-> [name |-> "ResponseError",
                                           status |-> status]])
    /\ UNCHANGED <<instances, entityVars, blobVars>>

\* what the platform answers to a DELETE or a PUT: a 2xx status, another
\* status, or nothing
WriteStatuses == {"200", "201", "204", "404", "transport"}

\* axios resolves for a 2xx status and rejects for everything else
resolves(status) == status \in {"200", "201", "204"}

\* .then(() => true) / .catch((error) => { throw new ResponseError(
\* error.response!.status, ...) }): what the caller gets for a status
settled(status) ==
    IF resolves(status) THEN [returned |-> TRUE]
    ELSE IF status = "transport" THEN [thrown |-> [name |-> "TypeError"]]
    ELSE [thrown |-> [name |-> "ResponseError", status |-> status]]

\* await client.deleteRealityData(accessToken, realityDataId)
deleteRealityData ==
    /\ \E accessToken \in AccessTokens, realityDataId \in RealityDataIds,
          status \in WriteStatuses :
          reply' = [method |-> "deleteRealityData", status |-> status,
                    sent |-> [verb |-> "DELETE",
                              url |-> <<baseUrl, "/", realityDataId>>,
                              accessToken |-> accessToken]]
                   @@ settled(status)
    /\ UNCHANGED <<instances, entityVars, blobVars>>

\* await client.associateRealityData(accessToken, iTwinId, realityDataId)
associateRealityData ==
    /\ \E accessToken \in AccessTokens, realityDataId \in RealityDataIds,
          status \in WriteStatuses :
          reply' = [method |-> "associateRealityData", status |-> status,
                    sent |-> [verb |-> "PUT",
                              url |-> <<baseUrl, "/", realityDataId,
                                        "/projects/", "iTwinId">>,
                              accessToken |-> accessToken]]
                   @@ settled(status)
    /\ UNCHANGED <<instances, entityVars, blobVars>>

\* await client.dissociateRealityData(accessToken, iTwinId, realityDataId)
dissociateRealityData ==
    /\ \E accessToken \in AccessTokens, realityDataId \in RealityDataIds,
          status \in WriteStatuses :
          reply' = [method |-> "dissociateRealityData", status |-> status,
                    sent |-> [verb |-> "DELETE",
                              url |-> <<baseUrl, "/", realityDataId,
                                        "/projects/", "iTwinId">>,
                              accessToken |-> accessToken]]
                   @@ settled(status)
    /\ UNCHANGED <<instances, entityVars, blobVars>>

InitCalls ==
    /\ reply = undefined
    /\ instances = <<>>
    /\ id = undefined /\ client = undefined /\ iTwinId = undefined
    /\ now = 0
    /\ containerCache = [containerRead |-> undefined, containerWrite |-> undefined]
    /\ call = [c \in Callers |-> Idle]
    /\ event = NoEvent
    /\ requests = 0
    /\ containerUrl = undefined /\ blobPath = undefined /\ blobUrl = undefined

NextCalls ==
    \/ callGetRealityDataUrl
    \/ getRealityDatas
    \/ deleteRealityData
    \/ associateRealityData
    \/ dissociateRealityData

SpecCalls == InitCalls /\ [][NextCalls]_vars

-----------------------------------------------------------------------------
(* Vocabulary of the properties.  event describes the step that led to the *)
(* state: "sent" an invocation issued its container request, "url" an     *)
(* invocation returned (fetched tells whether from its own response),     *)
(* "error" an invocation threw.                                           *)

\* the freshness window as specified: valid iff T - obtainedAt < 50 minutes
IsFresh(cached, t) == cached # undefined /\ t - cached.timeStamp < RefreshMs

\* the step starts an invocation that hits the cache / returns a url it fetched
IsHit(e) == e.kind = "url" /\ ~e.fetched
IsFetched(e) == e.kind = "url" /\ e.fetched
IsSent(e) == e.kind = "sent"
IsFailure(e) == e.kind = "error" /\ e.sent

OtherAccess(a) == IF a = "Read" THEN "Write" ELSE "Read"

\* age of a credential as the cache records it, and as the platform counts it
RecordedAge(cached) == now - cached.timeStamp
TrueAge(cached) == now - cached.url.issuedAt

-----------------------------------------------------------------------------
\* C1: an invocation that finds the slot of its access fresh returns the cached
\* container url and issues no request: the request counter, the cache and the
\* pending invocations are as before (so of two consecutive calls inside the
\* window only the first one costs a request)
C1_FreshSlotCostsNoRequest ==
    [][(IsSent(event') \/ IsHit(event'))
       /\ IsFresh(getCache(containerCache, event'.access), now)
         => /\ IsHit(event')
            /\ event'.container = getCache(containerCache, event'.access)
            /\ requests' = requests
            /\ containerCache' = containerCache
            /\ call' = call]_vars

\* a getBlobUrl call was served from the cache, some time after the only
\* request made so far
C1_Witness ==
    /\ IsHit(event)
    /\ event.entry = "getBlobUrl"
    /\ requests = 1
    /\ 0 < RecordedAge(event.container)
    /\ RecordedAge(event.container) < RefreshMs

\* C2 as stated: the credential behind every url returned is, at the moment of
\* the return, younger than 50 minutes
C2_ReturnedInsideWindow ==
    event.kind = "url" => RecordedAge(event.container) < RefreshMs

\* C2 amended: the credential behind every url returned is, at the moment of
\* the return, at most 50 minutes old; an older slot is replaced first
C2_ReturnedAtMostWindowOld ==
    event.kind = "url" => RecordedAge(event.container) <= RefreshMs

\* a slot older than 50 minutes was replaced and the new url returned
C2_Witness ==
    /\ IsFetched(event)
    /\ event.replaced # undefined
    /\ now - event.replaced.timeStamp > RefreshMs
    /\ event.container # event.replaced

\* C3 as stated: a call is served from the cache exactly when now - t0 < 50 min
C3_FreshIffBelowWindow ==
    /\ IsHit(event) => IsFresh(getCache(containerCache, event.access), now)
    /\ IsSent(event) => ~IsFresh(getCache(containerCache, event.access), now)

\* C3 amended: a call is served from the cache exactly when now - t0 <= 50 min;
\* a request is issued when the slot is empty or now - t0 > 50 min
C3_FreshIffAtMostWindow ==
    /\ IsHit(event) =>
          /\ getCache(containerCache, event.access) # undefined
          /\ RecordedAge(getCache(containerCache, event.access)) <= RefreshMs
    /\ IsSent(event) =>
          \/ getCache(containerCache, event.access) = undefined
          \/ RecordedAge(getCache(containerCache, event.access)) > RefreshMs

\* a call at exactly t0 + 50m00s was served from the cache
C3_Witness ==
    /\ IsHit(event)
    /\ RecordedAge(event.container) = RefreshMs

\* C4: a step in which an invocation throws leaves both slots as they were, and
\* no invocation is ever served from an empty slot
C4_FailureLeavesCache ==
    [][/\ event'.kind = "error" => containerCache' = containerCache
       /\ IsHit(event') => getCache(containerCache, event'.access) # undefined]_vars

\* a refresh failed on a body without container and the old credential is
\* still in the slot
C4_Witness ==
    /\ IsFailure(event)
    /\ event.response.outcome = "noContainer"
    /\ getCache(containerCache, event.access) # undefined

\* C5 as stated: the request of a getBlobUrl call asks for the access its
\* writeAccess argument selects
C5_AccessFromArgument ==
    IsSent(event) /\ event.entry = "getBlobUrl"
        => event.access = (IF event.passed THEN "Write" ELSE "Read")

\* C6: a slot changes only in a step that returns a fetched url for the
\* access of that slot
C6_ModeIsolation ==
    [][\A a \in Access :
          getCache(containerCache', a) # getCache(containerCache, a)
            => IsFetched(event') /\ event'.access = a]_vars

\* both slots held a credential, one of them older than 50 minutes; that one
\* was refreshed and the other one is as it was written earlier
C6_Witness ==
    /\ IsFetched(event)
    /\ event.replaced # undefined
    /\ now - event.replaced.timeStamp > RefreshMs
    /\ LET other == getCache(containerCache, OtherAccess(event.access))
       IN  /\ other # undefined
           /\ other.timeStamp < now
           /\ RecordedAge(other) <= RefreshMs

\* C7: an invocation whose request was rejected (bad status, no response) or
\* answered without the container never returns a url: it throws
C7_FailuresRaise ==
    /\ (IsFetched(event) \/ IsFailure(event)) /\ event.response.outcome # "ok"
          => event.kind = "error"
    /\ \A a \in Access :
          getCache(containerCache, a) # undefined
            => getCache(containerCache, a).url # undefined

\* an invocation threw on a 2xx response without the container
C7_Witness ==
    /\ IsFailure(event)
    /\ event.response.outcome = "noContainer"
    /\ getCache(containerCache, event.access) = undefined

\* C8 as stated: no request is ever issued for an instance without id
C8_NoRequestWithoutId ==
    id = undefined => requests = 0

\* C9: an invocation that finds its slot empty or older than 50 minutes issues
\* a request of its own, whatever is pending; when its response is processed
\* the slot holds the credential of that response, stamped now, and this is
\* what the invocation returns
C9_Inv ==
    IsFetched(event) =>
        /\ getCache(containerCache, event.access) =
               [url |-> event.response.href, timeStamp |-> now]
        /\ event.container = getCache(containerCache, event.access)

C9_Step ==
    (IsSent(event') \/ IsHit(event'))
    /\ (\/ getCache(containerCache, event'.access) = undefined
        \/ RecordedAge(getCache(containerCache, event'.access)) > RefreshMs)
      => /\ IsSent(event')
         /\ requests' = requests + 1

C10_NeverExpired ==
    event.kind = "url" => TrueAge(event.container) < ValidMs

-----------------------------------------------------------------------------
\* the invocation of caller c is suspended at the await
Pending(c) == call[c].pc = "await"

\* C11, its progress half: when every request is answered successfully, every
\* invocation suspended at the await runs to its end, and it ends by
\* returning a url (an invocation that hits the cache returns in one step)
C11_EveryCallReturns ==
    /\ \A c \in Callers : Pending(c) ~> ~Pending(c)
    /\ [][\A c \in Callers :
            Pending(c) /\ ~Pending(c)' => IsFetched(event')]_vars

\* C11 as stated: when every request is answered successfully, every
\* invocation eventually returns, and the url it returns is fresh (recorded
\* less than 50 minutes ago) and valid (issued less than 60 minutes ago) at
\* the moment it is returned
C11_EventuallyFreshAndValid ==
    /\ C11_EveryCallReturns
    /\ [](event.kind = "url" =>
            /\ RecordedAge(event.container) < RefreshMs
            /\ TrueAge(event.container) < ValidMs)

\* C12: while the Read slot is fresh, getBlobUrl returns the cached url and
\* issues no request whichever access token it is given, the invalid one
\* included: the outcome of the call is the same for every token
C12_HitIgnoresToken ==
    \A c \in Callers, accessToken \in AccessTokens :
        LET cached == getCache(containerCache, "Read")
        IN  call[c] = Idle /\ client # undefined /\ IsFresh(cached, now) =>
                ENABLED /\ startCall(c, "getBlobUrl", accessToken, FALSE, FALSE)
                        /\ IsHit(event')
                        /\ event'.accessToken = accessToken
                        /\ event'.container = cached
                        /\ requests' = requests
                        /\ containerCache' = containerCache
                        /\ call' = call

\* getBlobUrl given the invalid token returned the url a request with some
\* token had stored before
C12_Witness ==
    /\ IsHit(event)
    /\ event.entry = "getBlobUrl"
    /\ event.accessToken = "fake"
    /\ event.container = getCache(containerCache, "Read")
    /\ requests = 1

\* C13: on an instance without iTwinId no invocation throws for the lack of
\* it; one that finds its slot in need of a refresh issues the container
\* request with the project parameter left out, and when that request is
\* answered with a container link the invocation returns the link
C13_RequestWithoutProject ==
    [][iTwinId = undefined =>
        /\ (event'.kind = "error" /\ ~event'.sent => client = undefined)
        /\ (IsHit(event') =>
               ~requiresRequest(getCache(containerCache, event'.access), now))
        /\ (IsSent(event') =>
               /\ requests' = requests + 1
               /\ \E c \in Callers :
                     /\ ~Pending(c) /\ Pending(c)'
                     /\ call'[c].request.url.projectId = undefined
                     /\ call'[c].request.url.access = event'.access)
        /\ (\A c \in Callers : Pending(c) /\ ~Pending(c)' =>
               \/ event'.response.outcome # "ok"
               \/ /\ IsFetched(event')
                  /\ event'.container.url = event'.response.href)]_vars

\* an instance built without iTwinId returned the link of its own request
C13_Witness ==
    /\ iTwinId = undefined
    /\ IsFetched(event)
    /\ event.response.outcome = "ok"
    /\ event.container.url = event.response.href

\* C14: while the client reference is missing, getBlobUrl (like
\* getContainerUrl) throws, whatever the cache holds, and throws in the step
\* of the call: it neither serves a cached url nor issues a request, and it
\* leaves nothing pending that could be retried
C14_ThrowsBeforeCacheAndRequest ==
    /\ [](\A c \in Callers : client = undefined /\ call[c] = Idle =>
            ENABLED (getBlobUrl(c) /\ event'.kind = "error" /\ ~event'.sent))
    /\ [][(client = undefined => ~IsSent(event') /\ ~IsHit(event'))
          /\ (event'.kind = "error" /\ ~event'.sent =>
                /\ client = undefined
                /\ UNCHANGED <<requests, containerCache, call>>)]_vars

\* getBlobUrl threw for the missing client although the Read slot was fresh
C14_Witness ==
    /\ client = undefined
    /\ event.kind = "error" /\ ~event.sent
    /\ event.entry = "getBlobUrl"
    /\ IsFresh(getCache(containerCache, "Read"), now)
    /\ requests = 1

\* C15 as stated: whatever made the container request fail, the caller gets
\* an error of the one kind, and the error carries the id of the reality
\* data and the access of the failed call, and the status when the platform
\* answered with one
C15_ErrorCarriesIdAndAccess ==
    IsFailure(event) =>
        /\ event.error.name = "Error"
        /\ event.error.prefix = "API request error: "
        /\ "config" \in DOMAIN event.error.json
        /\ event.error.json.config.url.id = id
        /\ event.error.json.config.url.access = event.access
        /\ (event.response.outcome = "badStatus" =>
               event.error.json.status = "status")

\* C16 as stated: for every container url and every blobPath the url returned
\* has the origin of the container url, its path followed by "/" and
\* blobPath, and its query string, piece for piece
C16_QueryPreserved ==
    blobUrl # undefined /\ blobPath # undefined =>
        /\ blobUrl.origin = containerUrl.origin
        /\ blobUrl.pathname = containerUrl.pathname \o <<"/">> \o blobPath.string
        /\ blobUrl.search = containerUrl.search

\* C17: without blobPath the url returned is the container url as it is
C17_NoPathPassthrough ==
    blobUrl # undefined /\ blobPath = undefined => blobUrl = containerUrl

\* getBlobUrl returned a signed container url for a missing blobPath
C17_Witness ==
    /\ blobPath = undefined
    /\ blobUrl = containerUrl
    /\ blobUrl.search = <<"?", "sig=abc123">>

\* C18: a call of getContainerUrl on one object leaves every other object as
\* it is and takes nothing from it: if the slot of its own object is empty it
\* issues a request, whatever the other objects of the same reality data
\* hold; and an object the client returns starts with both slots empty
C18_CachePrivateToInstance ==
    [][/\ \A h \in Holders, writeAccess \in BOOLEAN :
            resolve(h, writeAccess) =>
                /\ \A g \in Holders \ {h} : instances'[g] = instances[g]
                /\ (getCache(instances[h].containerCache,
                             accessOf(writeAccess)) = undefined
                      => requests' = requests + 1)
       /\ \A h, g \in Holders :
            (getRealityData(h) \/ createRealityData(h) \/ modifyRealityData(h, g)) =>
                /\ instances'[h].containerCache =
                       [containerRead |-> undefined, containerWrite |-> undefined]
                /\ \A k \in Holders \ {h} : instances'[k] = instances[k]]_vars

\* two objects of the same reality data, each with the one slot its own
\* request filled
C18_Witness ==
    /\ instances["x"] # undefined /\ instances["y"] # undefined
    /\ instances["x"].id = instances["y"].id
    /\ instances["x"].containerCache.containerRead # undefined
    /\ instances["y"].containerCache.containerRead = undefined
    /\ instances["y"].containerCache.containerWrite # undefined
    /\ instances["x"].containerCache.containerWrite = undefined
    /\ requests = 2

\* the query parameters of a url: what follows its first "?"
Query(url) == SubSeq(url, indexOf(url, "?", 1), Len(url))

\* the url has the query parameter name with the given value
HasParameter(url, name, value) ==
    \E i \in 2..(Len(Query(url)) - 1) :
        /\ Query(url)[i - 1] \in {"?", "&"}
        /\ Query(url)[i] = name
        /\ Query(url)[i + 1] = value

\* C19 as stated: getRealityDatas with top above 500 throws and sends
\* nothing; with top up to 500 it sends its request with the parameter $top
C19_TopLimit ==
    reply # undefined /\ reply.method = "getRealityDatas"
    /\ reply.criteria # undefined /\ reply.criteria.top # undefined =>
        IF reply.criteria.top.number > MaxTop
        THEN "thrown" \in DOMAIN reply /\ reply.sent = undefined
        ELSE /\ reply.sent # undefined
             /\ HasParameter(reply.sent.url, "$top=",
                              ToString(reply.criteria.top.number))

\* C20 as stated: getRealityDataUrl returns baseUrl/realityDataId?projectId=
\* iTwinId for an iTwinId, and throws an Error without one
C20_UrlOrError ==
    reply # undefined /\ reply.method = "getRealityDataUrl" =>
        IF reply.iTwinId # undefined
        THEN /\ "returned" \in DOMAIN reply
             /\ reply.returned = <<baseUrl, "/", reply.realityDataId,
                                    "?", "projectId=", reply.iTwinId.guid>>
        ELSE /\ "thrown" \in DOMAIN reply
             /\ reply.thrown.name = "Error"

\* the status that means success for the method
SuccessStatus(method) == IF method = "associateRealityData" THEN "201" ELSE "204"

\* C21 as stated: deleteRealityData, associateRealityData and
\* dissociateRealityData return a boolean: true for the status that means
\* success (204, 201, 204), false for any other outcome
C21_BooleanResult ==
    reply # undefined
    /\ reply.method \in {"deleteRealityData", "associateRealityData",
                         "dissociateRealityData"} =>
        /\ "returned" \in DOMAIN reply
        /\ reply.returned = (reply.status = SuccessStatus(reply.method))

\* C22: an invocation that missed the cache and got a container link writes
\* the slot of its access, and only that slot, with the link of its response
\* stamped with the current time, and returns that link, not the one the
\* slot held before
C22_OneSlotReplaced ==
    [][IsFetched(event') =>
        /\ getCache(containerCache', event'.access) =
               [url |-> event'.response.href, timeStamp |-> now']
        /\ getCache(containerCache', OtherAccess(event'.access)) =
               getCache(containerCache, OtherAccess(event'.access))
        /\ event'.replaced = getCache(containerCache, event'.access)
        /\ event'.container.url = event'.response.href]_vars

\* a slot that held a link was replaced by a later one, the other slot,
\* filled before, is as it was, and the caller got the later link
C22_Witness ==
    /\ IsFetched(event)
    /\ event.replaced # undefined
    /\ event.replaced.url.issuedAt < event.response.href.issuedAt
    /\ event.container.url = event.response.href
    /\ getCache(containerCache, OtherAccess(event.access)) # undefined
    /\ getCache(containerCache, OtherAccess(event.access)).timeStamp < now

\* where a slot is in its life at instant t, by the test the code applies
SlotState(cached, t) ==
    IF cached = undefined THEN "Empty"
    ELSE IF blobUrlRequiresRefresh(cached, t) THEN "Stale"
    ELSE "Fresh"

\* C23: both slots are Empty at construction; a slot leaves Empty, and a
\* Stale slot becomes Fresh, only in the step in which an invocation for its
\* access stores the link of its response; a Fresh slot becomes Stale only
\* in a step in which nothing but the clock moves; no slot becomes Empty
\* again, and a slot just written is Fresh
C23_SlotLifecycle ==
    /\ \A a \in Access : getCache(containerCache, a) = undefined
    /\ [][\A a \in Access :
            LET before == SlotState(getCache(containerCache, a), now)
                after == SlotState(getCache(containerCache', a), now')
                written == IsFetched(event') /\ event'.access = a
            IN  /\ after = "Empty" => before = "Empty"
                /\ before = "Empty" /\ after # "Empty" =>
                       written /\ after = "Fresh"
                /\ before = "Stale" /\ after = "Fresh" => written
                /\ before = "Fresh" /\ after = "Stale" =>
                       /\ now' > now
                       /\ containerCache' = containerCache
                       /\ event' = NoEvent
                /\ written => after = "Fresh"]_vars

\* a slot went through Empty, Fresh and Stale and was made Fresh again
C23_Witness ==
    /\ IsFetched(event)
    /\ event.replaced # undefined
    /\ SlotState(event.replaced, now) = "Stale"
    /\ SlotState(getCache(containerCache, event.access), now) = "Fresh"

\* C24: an invocation issues its one request in the step that suspends it
\* and none when it is resumed; the cache is as it was when the request is
\* sent, and it changes only in the step in which a suspended invocation is
\* resumed with a response that carries the container link
C24_OneRequestThenWrite ==
    [][/\ (IsSent(event') =>
            /\ requests' = requests + 1
            /\ containerCache' = containerCache
            /\ \E c \in Callers :
                  /\ ~Pending(c) /\ Pending(c)'
                  /\ \A d \in Callers \ {c} : call'[d] = call[d])
       /\ (requests' # requests => IsSent(event'))
       /\ (\A c \in Callers : Pending(c) /\ ~Pending(c)' =>
            /\ requests' = requests
            /\ event'.kind \in {"url", "error"}
            /\ \A d \in Callers \ {c} : call'[d] = call[d])
       /\ (containerCache' # containerCache =>
            /\ IsFetched(event')
            /\ event'.response.outcome = "ok"
            /\ event'.sentAt <= now
            /\ \E c \in Callers : Pending(c) /\ ~Pending(c)')]_vars

\* a slot that held a link stayed as it was while the request that was to
\* replace it was in flight, and was written when the response came
C24_Witness ==
    /\ IsFetched(event)
    /\ event.replaced # undefined
    /\ event.replaced.timeStamp < event.sentAt
    /\ event.sentAt < now
    /\ requests = 2

\* C25: a request is issued only by an invocation that finds the slot of its
\* access empty or recorded more than 50 minutes ago; and when a link is
\* stored over one that was stored before the request was sent (the two
\* invocations did not overlap), the request was sent, and so the link
\* stored, at least 50 minutes after the earlier one was stored
C25_NoEarlyRefetch ==
    [][/\ (IsSent(event') =>
            \/ getCache(containerCache, event'.access) = undefined
            \/ RecordedAge(getCache(containerCache, event'.access)) >= RefreshMs)
       /\ (IsFetched(event') /\ event'.replaced # undefined
            /\ event'.replaced.timeStamp < event'.sentAt =>
               /\ event'.sentAt - event'.replaced.timeStamp >= RefreshMs
               /\ now' - event'.replaced.timeStamp >= RefreshMs)]_vars

\* the second of two requests, made one after the other, stored its link
\* more than 50 minutes after the first
C25_Witness ==
    /\ IsFetched(event)
    /\ event.replaced # undefined
    /\ event.replaced.timeStamp < event.sentAt
    /\ now - event.replaced.timeStamp > RefreshMs
    /\ \A c \in Callers : ~Pending(c)
    /\ requests = 2

\* C26: a step in which the clock moves changes nothing else: no slot, no
\* request, no invocation; slots change and requests are issued only in the
\* steps of an invocation, the one that sends its request or the one that
\* returns the link it fetched
C26_NoBackgroundRefresh ==
    [][/\ (now' # now =>
            /\ containerCache' = containerCache
            /\ requests' = requests
            /\ call' = call
            /\ event' = NoEvent)
       /\ (requests' # requests => IsSent(event') /\ now' = now)
       /\ (containerCache' # containerCache =>
            IsFetched(event') /\ now' = now)]_vars

\* the clock went past the refresh time of a stored link and past its
\* expiry: the slot still holds it and the one request is still the only one
C26_Witness ==
    /\ event = NoEvent
    /\ now = ValidMs
    /\ containerCache.containerRead # undefined
    /\ containerCache.containerRead.timeStamp = 0
    /\ blobUrlRequiresRefresh(containerCache.containerRead, now)
    /\ \A c \in Callers : ~Pending(c)
    /\ requests = 1

\* C27: a slot is empty or holds a url together with a timeStamp, the url
\* signed no later than the stamp; a slot changes only by taking both fields
\* at once from the response being processed: the url of that response,
\* signed after its request was sent, and the time of the processing
C27_Paired ==
    \A access \in Access :
        LET cached == getCache(containerCache, access)
        IN  cached # undefined =>
                /\ DOMAIN cached = {"url", "timeStamp"}
                /\ cached.url # undefined
                /\ cached.timeStamp \in Instants
                /\ cached.url.access \in Access
                /\ cached.url.issuedAt <= cached.timeStamp

C27_WrittenTogether ==
    \A access \in Access :
        getCache(containerCache', access) # getCache(containerCache, access) =>
            /\ IsFetched(event') /\ event'.access = access
            /\ getCache(containerCache', access).url = event'.response.href
            /\ getCache(containerCache', access).timeStamp = now'
            /\ event'.sentAt <= event'.response.href.issuedAt

C27_NoTornUpdate == []C27_Paired /\ [][C27_WrittenTogether]_vars

\* a slot that held a url and its stamp now holds another url and another
\* stamp, both of the response just processed
C27_Witness ==
    /\ IsFetched(event)
    /\ event.replaced # undefined
    /\ getCache(containerCache, event.access).url # event.replaced.url
    /\ getCache(containerCache, event.access).timeStamp
           # event.replaced.timeStamp
    /\ getCache(containerCache, event.access).url = event.response.href
    /\ getCache(containerCache, event.access).timeStamp = now

\* C28: the stamp of a stored link is the clock at the step that processes
\* the response, hence never before the sending of the request; the link was
\* signed between the two, so its true age exceeds its recorded age by at
\* most the time the response took
C28_StampedAtProcessing ==
    [][IsFetched(event') =>
        LET cached == getCache(containerCache', event'.access)
            latency == now' - event'.sentAt
            excess == (now' - cached.url.issuedAt) - (now' - cached.timeStamp)
        IN  /\ cached.timeStamp = now'
            /\ cached.timeStamp >= event'.sentAt
            /\ 0 <= excess /\ excess <= latency]_vars

\* the response took time and carried a link signed when the request was
\* sent: the link is older than its stamp says by the whole latency
C28_Witness ==
    /\ IsFetched(event)
    /\ event.sentAt < now
    /\ getCache(containerCache, event.access).timeStamp = now
    /\ getCache(containerCache, event.access).url.issuedAt = event.sentAt
    /\ TrueAge(getCache(containerCache, event.access))
          - RecordedAge(getCache(containerCache, event.access))
          = now - event.sentAt

\* C29: the url in the Read slot was granted to a request that asked for
\* Read and the url in the Write slot to one that asked for Write; a pending
\* request asks for the access getContainerUrl computed from its writeAccess
\* argument, and the url an invocation returns, cached or fetched, was
\* granted for that access
C29_SlotProvenance ==
    /\ containerCache.containerRead # undefined =>
           containerCache.containerRead.url.access = "Read"
    /\ containerCache.containerWrite # undefined =>
           containerCache.containerWrite.url.access = "Write"
    /\ \A c \in Callers :
           Pending(c) => call[c].request.url.access = call[c].access
    /\ event.kind = "url" => event.container.url.access = event.access

C29_CallProvenance ==
    /\ IsSent(event') /\ event'.entry = "getContainerUrl" =>
           event'.access = accessOf(event'.passed)
    /\ IsFetched(event') =>
           event'.response.href.access = event'.access

C29_PermissionProvenance ==
    []C29_SlotProvenance /\ [][C29_CallProvenance]_vars

\* both slots are filled, each with the url of a request of its own access,
\* and an invocation for Write is handed the url of the Write slot
C29_Witness ==
    /\ containerCache.containerRead # undefined
    /\ containerCache.containerWrite # undefined
    /\ containerCache.containerRead.url.access = "Read"
    /\ containerCache.containerWrite.url.access = "Write"
    /\ event.kind = "url" /\ event.access = "Write"
    /\ event.container.url = containerCache.containerWrite.url

\* C30: the step in which a waiting invocation takes a granted response ends
\* that invocation and no other, writes the slot and hands back the value
\* just written, the url of that very response answering the request this
\* invocation sent, whatever the other invocation for the same access did
\* to the slot in the meantime or is still about to do
C30_OwnResponseReturned ==
    [][\A c \in Callers :
        Pending(c) /\ call'[c] = Idle /\ IsFetched(event') =>
            /\ event'.access = call[c].access
            /\ event'.sentAt = call[c].request.sentAt
            /\ event'.response.href.access = call[c].request.url.access
            /\ event'.response.href.issuedAt >= call[c].request.sentAt
            /\ event'.container =
                   [url |-> event'.response.href, timeStamp |-> now']
            /\ \A d \in Callers \ {c} : call'[d] = call[d]]_vars

\* the slot was written by the other invocation while this one waited, and
\* the other one is waiting again on a request for the same access: this one
\* returns the url of its own response, not the one it found in the slot
C30_Witness ==
    /\ IsFetched(event)
    /\ event.replaced # undefined
    /\ event.replaced.timeStamp >= event.sentAt
    /\ event.container.url = event.response.href
    /\ event.container.url # event.replaced.url
    /\ \E d \in Callers : Pending(d) /\ call[d].access = event.access

====
